---- MODULE Spec2Model ----
(***************************************************************************)
(* The radial countdown timer of jorenvo/timer (class TimerCanvas).        *)
(*                                                                         *)
(* Numbers.  JavaScript numbers are modelled by exact integers:            *)
(*   - wall-clock instants (Date.now()) are integer milliseconds and       *)
(*     advance in multiples of the interval period TickMs;                 *)
(*   - a quantity of seconds is held as a count of 1/SecScale seconds      *)
(*     (SecScale = 5, one unit = 200 ms), so (ms / 1000) is exact;         *)
(*   - an angle is held as a count of pi/PI radians (PI = 18000, one unit  *)
(*     = 0.01 degree), so both conversions are exact on the values used.   *)
(* Floating-point rounding is therefore outside the model.                 *)
(*                                                                         *)
(* Besides the object's fields the state holds the environment the code    *)
(* reads (the clock, whether the canvas gives a 2-D context, its layout    *)
(* size, whether it is still in the document, the browser's interval       *)
(* schedules and listeners) and a record of what the callbacks did (shown, *)
(* advances, delivered, dragged, called_with), which no action reads back  *)
(* except to bound the run.                                                *)
(***************************************************************************)
EXTENDS Integers, FiniteSets, Sequences, TLC

\* ------------------------------------------------------------- constants
\* Period of window.setInterval in animate_clock, in milliseconds.
TickMs == 200
\* Divisor turning milliseconds into seconds in the interval callback.
MsPerSec == 1000
\* Math.PI, in angle units.
PI == 18000

\* Fixed-point scale of a quantity of seconds.
SecScale == MsPerSec \div TickMs
Sec(n) == n * SecScale
\* 60 * 60 seconds, the amount set_remaining_seconds adds.
Hour == Sec(60 * 60)

\* A field of type (number | undefined) holds <<>> or <<n>>.
Undefined == <<>>
Some(n) == <<n>>

\* ---------------------------------------------------------------- bounds
\* How many times the wall clock may advance.
MaxAdvances == 3
\* How many interval handles window.setInterval may hand out.
MaxHandles == 3
\* The inputs of SpecNormalize reach from -10 * NormSpan to 10 * NormSpan
\* seconds.
NormSpan == 380

\* The amounts by which the wall clock advances between callbacks (ms): a
\* callback may be held back for any time (a throttled background tab).
Steps == {60 * MsPerSec}
\* How long one render pass may take (ms between its start and the
\* Date.now() that ends it).
RenderMs == {0, TickMs}
\* The canvas's width and height attributes at construction (pixels): the
\* 2:1 shape of a canvas element without attributes.
Attributes == {<<4, 2>>}
\* The layout sizes <<clientWidth, clientHeight>> the page may give it.
Layouts == {<<4, 2>>, <<2, 2>>}
\* Results of Math.atan2 for the pointer positions of move events: one mark
\* before 12 o'clock, 12 o'clock and one mark after it.
RawAngles == {-(PI \div 2) - (PI \div 30), -(PI \div 2),
              -(PI \div 2) + (PI \div 30)}
\* The amounts by which the wall clock advances before a callback that has
\* become due runs (ms), in the specification with fairness.
LiveSteps == {20 * 60 * MsPerSec}
\* How long a render pass takes in that specification (ms): a slow pass, the
\* time of which the countdown does not see.
LiveRenderMs == {TickMs}
\* The two builds of the engine: the customized built-in element
\* (src/src/timer.ts) and the plain wrapper (src/unnamed/part_000).
Variants == {"element", "wrapper"}

VARIABLES
    variant,                          \* which build runs
    context,                          \* getContext("2d") gave a context
    thrown,                           \* the constructor threw
    torn_down,                        \* the canvas was removed from the page
    mounted,                          \* setup() has run
    now,                              \* Date.now()
    width, height,                    \* canvas backing store
    clientWidth, clientHeight,        \* canvas layout size
    center,                           \* Coordinate
    needs_full_render,
    animation_timer,
    prev_render_ms,
    remaining_seconds,
    time_radians,
    drag_starting_angle,
    drag_starting_remaining_seconds,
    intervals,                        \* active window.setInterval schedules
    next_handle,                      \* next handle setInterval returns
    mousemove_attached,               \* "mousemove" listener on the canvas
    touchmove_attached,               \* "touchmove" listener on the canvas
    shown,                            \* what the latest render pass did
    advances,                         \* how often the clock advanced
    delivered,                        \* seconds handed to ticks since mount
    dragged,                          \* a move event has been handled
    called_with                       \* argument of a direct call (SpecNormalize)

vars == <<variant, context, thrown, torn_down, mounted, now, width, height,
          clientWidth, clientHeight,
          center, needs_full_render, animation_timer, prev_render_ms,
          remaining_seconds, time_radians, drag_starting_angle,
          drag_starting_remaining_seconds, intervals, next_handle,
          mousemove_attached, touchmove_attached, shown, advances,
          delivered, dragged, called_with>>

\* What no callback of the engine writes.
fixed_vars == <<variant, context, thrown, torn_down, called_with>>
canvas_vars == <<width, height, center, needs_full_render>>
client_vars == <<clientWidth, clientHeight>>
time_vars == <<remaining_seconds, time_radians>>
drag_vars == <<drag_starting_angle, drag_starting_remaining_seconds>>
timer_vars == <<animation_timer, intervals, next_handle>>
listener_vars == <<mousemove_attached, touchmove_attached>>

\* ------------------------------------------------- angle/time conversion
\* ((secs / 60) * Math.PI) / 30
seconds_to_radians(secs) == (secs * PI) \div (60 * 30 * SecScale)

\* rads * (60 / (2 * Math.PI)) * 60
radians_to_seconds(rads) == (rads * 60 * 60 * SecScale) \div (2 * PI)

\* while (s < 0) { s += 60 * 60; }
RECURSIVE AddHours(_)
AddHours(s) == IF s < 0 THEN AddHours(s + Hour) ELSE s

\* The same without the loop: the value is stored as given.
set_remaining_seconds_raw(s) ==
    [remaining_seconds |-> s, time_radians |-> seconds_to_radians(s)]

\* The same without recomputing the angle.
set_remaining_seconds_stale(s) ==
    [remaining_seconds |-> AddHours(s), time_radians |-> time_radians]

\* The same with "if" in place of "while": one hour is added at most.
set_remaining_seconds_once(s) ==
    LET n == IF s < 0 THEN s + Hour ELSE s
    IN  [remaining_seconds |-> n, time_radians |-> seconds_to_radians(n)]

\* The values set_remaining_seconds(s) stores.
set_remaining_seconds(s) ==
    LET n == AddHours(s)
    IN  [remaining_seconds |-> n, time_radians |-> seconds_to_radians(n)]

\* ---------------------------------------------------------------- canvas
\* The canvas fields a callback works on; cleared records a clearRect.
Canvas ==
    [width |-> width, height |-> height, center |-> center,
     needs_full_render |-> needs_full_render, cleared |-> FALSE]

\* setup_resolution() with the client size (cw, ch).
setup_resolution(cv, cw, ch) ==
    IF cv.width # cw \/ cv.height # ch
    THEN LET w == cw
             h == cw
         IN  [width |-> w, height |-> h,
              center |-> [x |-> w \div 2, y |-> h \div 2],
              needs_full_render |-> TRUE, cleared |-> TRUE]
    ELSE cv

\* What a render pass on canvas fields c0 did, r being the fields when
\* render_clock began: whether it began with width # height, whether it
\* cleared the surface, whether render_clock drew the numeral labels
\* (needs_full_render was set when it ran), the angle of the wedge
\* render_fill drew, and whether it drew around the midpoint of the surface.
\* labelled tells whether any pass of the same callback drew the labels: the
\* callback that runs two passes sets it.
Shown(c0, r, rad) ==
    [drawn |-> TRUE, nonsquare |-> c0.width # c0.height,
     cleared |-> r.cleared, labels |-> r.needs_full_render,
     labelled |-> r.needs_full_render, radians |-> rad,
     centered |-> r.center = [x |-> r.width \div 2, y |-> r.height \div 2]]

\* render() with a render_clock that leaves needs_full_render as it is.
render_keep(cv, cw, ch, rad) ==
    LET c0 == [cv EXCEPT !.cleared = FALSE]
        r  == IF c0.width # c0.height THEN setup_resolution(c0, cw, ch) ELSE c0
    IN  [canvas |-> r, shown |-> Shown(c0, r, rad)]

\* render(): the canvas fields after the pass (render_clock clears
\* needs_full_render) and what the pass did.
render(cv, cw, ch, rad) ==
    LET c0 == [cv EXCEPT !.cleared = FALSE]
        r  == IF c0.width # c0.height THEN setup_resolution(c0, cw, ch) ELSE c0
    IN  [canvas |-> [r EXCEPT !.needs_full_render = FALSE],
         shown  |-> Shown(c0, r, rad)]

NoRender ==
    [drawn |-> FALSE, nonsquare |-> FALSE, cleared |-> FALSE, labels |-> FALSE,
     labelled |-> FALSE, radians |-> 0, centered |-> FALSE]

\* ------------------------------------------------------------ animation
\* A clearTimeout that cancels nothing.
clearTimeout_noop(ivs, handle) == ivs

\* clearTimeout(handle): the schedules left active.
clearTimeout(ivs, handle) == {i \in ivs : Some(i.id) # handle}

\* animate_clock() without the clearTimeout that precedes setInterval.
animate_clock_leak(t) ==
    [animation_timer |-> Some(next_handle),
     intervals |-> intervals \cup {[id |-> next_handle, due |-> t + TickMs]},
     next_handle |-> next_handle + 1]

\* animate_clock() with its two statements in the other order: setInterval
\* first, then clearTimeout of the handle just stored.
animate_clock_swapped(t) ==
    [animation_timer |-> Some(next_handle),
     intervals |-> intervals,
     next_handle |-> next_handle + 1]

\* animate_clock() with a schedule whose first callback is due at once.
animate_clock_early(t) ==
    [animation_timer |-> Some(next_handle),
     intervals |-> clearTimeout(intervals, animation_timer)
                     \cup {[id |-> next_handle, due |-> t]},
     next_handle |-> next_handle + 1]

\* animate_clock() called at instant t: the timer fields afterwards.
animate_clock(t) ==
    [animation_timer |-> Some(next_handle),
     intervals |-> clearTimeout(intervals, animation_timer)
                     \cup {[id |-> next_handle, due |-> t + TickMs]},
     next_handle |-> next_handle + 1]

\* The interval callback's test for having run out.
expired_or_zero(remaining, secs) == remaining - secs <= 0
expired(remaining, secs) == remaining - secs < 0

\* ---------------------------------------------------------- construction
\* A constructor that goes on without a context.
constructor_throws_never(ctx) == FALSE

\* if (!context) { throw new Error("could not get 2d context for canvas"); }
constructor_throws(ctx) == ~ctx

\* ---------------------------------------------------------------- state
\* The state after the constructor's field assignments, with any canvas
\* attributes and any layout size; instants are counted from construction.
\* A constructor that threw made no object: nothing reads the fields then.
Init ==
    /\ variant \in Variants
    /\ context \in BOOLEAN
    /\ thrown = constructor_throws(context)
    /\ torn_down = FALSE
    /\ mounted = FALSE
    /\ now = 0
    /\ \E a \in Attributes : width = a[1] /\ height = a[2]
    /\ \E l \in Layouts : clientWidth = l[1] /\ clientHeight = l[2]
    /\ center = [x |-> 0, y |-> 0]
    /\ prev_render_ms = 0
    /\ remaining_seconds = Sec(2 * 60)
    /\ needs_full_render = TRUE
    /\ time_radians = seconds_to_radians(Sec(2 * 60))
    /\ animation_timer = Undefined
    /\ drag_starting_angle = Undefined
    /\ drag_starting_remaining_seconds = Undefined
    /\ intervals = {}
    /\ next_handle = 1
    /\ mousemove_attached = FALSE
    /\ touchmove_attached = FALSE
    /\ shown = NoRender
    /\ advances = 0
    /\ delivered = 0
    /\ dragged = FALSE
    /\ called_with = Undefined

\* The canvas fields take the values of record cv.
StoreCanvas(cv) ==
    /\ width' = cv.width
    /\ height' = cv.height
    /\ center' = cv.center
    /\ needs_full_render' = cv.needs_full_render

\* The timer fields take the values of record ac.
StoreTimer(ac) ==
    /\ animation_timer' = ac.animation_timer
    /\ intervals' = ac.intervals
    /\ next_handle' = ac.next_handle

\* remaining_seconds and time_radians take the values of record tv.
StoreTime(tv) ==
    /\ remaining_seconds' = tv.remaining_seconds
    /\ time_radians' = tv.time_radians

\* setup(): render(), handlers(), animate_clock().  The wrapper build runs
\* it at the end of its constructor, the element build in
\* connectedCallback (the element is connected once); neither is reached
\* when the constructor threw.  The pass is taken to end in the millisecond
\* it began in: its duration would only shift every later instant.
Mount ==
    /\ ~thrown
    /\ ~mounted
    /\ LET r == render(Canvas, clientWidth, clientHeight, time_radians)
            t == now
       IN  /\ StoreCanvas(r.canvas)
           /\ shown' = r.shown
           /\ prev_render_ms' = t
           /\ StoreTimer(animate_clock(t))
    /\ mounted' = TRUE
    /\ UNCHANGED <<fixed_vars, now, client_vars, time_vars, drag_vars,
                   listener_vars, advances, delivered, dragged>>

\* The wall clock moves on by d ms while no callback runs.  Time that passes
\* before setup() is left out: setup()'s render pass overwrites
\* prev_render_ms before anything reads it.
Advance(d) ==
    /\ mounted
    /\ advances < MaxAdvances
    /\ now' = now + d
    /\ advances' = advances + 1
    /\ UNCHANGED <<fixed_vars, mounted, canvas_vars, client_vars, time_vars,
                   drag_vars, timer_vars, listener_vars, prev_render_ms, shown,
                   delivered, dragged>>

\* The wall clock moves on by d ms while the loop runs and no callback is
\* due yet: once one is due the browser runs it before more time passes.
\* The clock of an Idle loop is left alone: nothing reads it until a move
\* event, which only takes it as the new origin of time.
Elapse(d) ==
    /\ mounted
    /\ intervals # {}
    /\ \A i \in intervals : now < i.due
    /\ now' = now + d
    /\ UNCHANGED <<fixed_vars, mounted, canvas_vars, client_vars, time_vars,
                   drag_vars, timer_vars, listener_vars, prev_render_ms, shown,
                   advances, delivered, dragged>>

\* The callback of interval iv runs, no earlier than it is due.  d ms pass
\* between the Date.now() that opens it and the Date.now() that ends its
\* render pass; the second pass of the wrapper build ends in the same
\* millisecond.  A schedule that stays active is due again TickMs after the
\* callback returns.
Tick(iv, d) ==
    /\ iv \in intervals
    /\ now >= iv.due
    /\ LET secs == ((now - prev_render_ms) * SecScale) \div MsPerSec
           r1   == render(Canvas, clientWidth, clientHeight, time_radians)
           t1   == now + d
           out  == expired(remaining_seconds, secs)
           tv   == IF out THEN set_remaining_seconds(0)
                          ELSE set_remaining_seconds(remaining_seconds - secs)
           again == out /\ variant = "wrapper"
           r2   == IF again
                   THEN render(r1.canvas, clientWidth, clientHeight,
                               tv.time_radians)
                   ELSE r1
           t2   == t1
           live == IF out THEN clearTimeout(intervals, animation_timer)
                          ELSE intervals
       IN  /\ StoreCanvas(r2.canvas)
           /\ shown' = [r2.shown EXCEPT
                            !.labelled = r1.shown.labels \/ r2.shown.labels]
           /\ now' = t2
           /\ prev_render_ms' = t2
           /\ StoreTime(tv)
           /\ intervals' = {IF j.id = iv.id
                               THEN [j EXCEPT !.due = t2 + TickMs]
                               ELSE j : j \in live}
           /\ delivered' = delivered + secs
    /\ UNCHANGED <<fixed_vars, mounted, client_vars, drag_vars, animation_timer,
                   next_handle, listener_vars, advances, dragged>>

\* angle = atan2(...); if (angle < 0) angle += 2 pi; angle += pi / 2;
\* angle %= 2 pi
NormAngle(raw) ==
    LET a1 == IF raw < 0 THEN raw + 2 * PI ELSE raw
        a2 == a1 + (PI \div 2)
    IN  a2 % (2 * PI)

\* ----------------------------------------------------------------- drag
\* No origin is recorded: the test that opens mousemove_handler's branch.
first_move ==
    \/ drag_starting_angle = Undefined
    \/ drag_starting_remaining_seconds = Undefined

\* The origin's time plus the time the angle moved by, taken from the
\* current remaining time instead of the recorded one.
drag_seconds_current(origin_angle, origin_seconds, angle) ==
    remaining_seconds + radians_to_seconds(origin_angle - angle)

\* drag_starting_remaining_seconds + radians_to_seconds(
\*     drag_starting_angle - angle)
drag_seconds(origin_angle, origin_seconds, angle) ==
    origin_seconds + radians_to_seconds(origin_angle - angle)

\* The time fields after a move event at angle, were the first move to set
\* the time from the pointer's angle.
move_time_snap(angle) ==
    IF first_move
    THEN set_remaining_seconds(radians_to_seconds(angle))
    ELSE set_remaining_seconds(
             drag_seconds(drag_starting_angle[1],
                          drag_starting_remaining_seconds[1], angle))

\* The time fields after the branch of mousemove_handler, at angle.
move_time(angle) ==
    IF first_move
    THEN [remaining_seconds |-> remaining_seconds,
          time_radians |-> time_radians]
    ELSE set_remaining_seconds(
             drag_seconds(drag_starting_angle[1],
                          drag_starting_remaining_seconds[1], angle))

\* mousemove_handler(event) for a pointer whose atan2 is raw.  The callback
\* is taken to run within one millisecond.  The first
\* conjunct bounds the run: setInterval hands out MaxHandles handles.
mousemove_handler(raw) ==
    /\ next_handle <= MaxHandles
    /\ LET angle == NormAngle(raw)
           tv    == move_time(angle)
           r     == render(Canvas, clientWidth, clientHeight, tv.time_radians)
           t     == now
       IN  /\ IF first_move
              THEN /\ drag_starting_angle' = Some(angle)
                   /\ drag_starting_remaining_seconds' =
                          Some(remaining_seconds)
              ELSE UNCHANGED drag_vars
           /\ StoreTime(tv)
           /\ StoreCanvas(r.canvas)
           /\ shown' = r.shown
           /\ prev_render_ms' = t
           /\ StoreTimer(animate_clock(t))
    /\ dragged' = TRUE
    /\ UNCHANGED <<fixed_vars, mounted, now, client_vars, listener_vars,
                   advances, delivered>>

\* A "mousemove" event reaches the listener mousedown attached.
MouseMove(raw) ==
    /\ mousemove_attached
    /\ mousemove_handler(raw)

\* A "touchmove" event reaches the listener touchstart attached, which
\* passes e.touches[0] to mousemove_handler.
TouchMove(raw) ==
    /\ touchmove_attached
    /\ mousemove_handler(raw)

\* What no gesture listener touches.
gesture_frame ==
    UNCHANGED <<fixed_vars, mounted, now, canvas_vars, client_vars, time_vars,
                timer_vars, prev_render_ms, shown, advances, delivered,
                dragged>>

\* "mousedown": addEventListener("mousemove", mousemove_handler).
MouseDown ==
    /\ mounted
    /\ mousemove_attached' = TRUE
    /\ UNCHANGED <<touchmove_attached, drag_vars>>
    /\ gesture_frame

\* "touchstart": addEventListener("touchmove", touchmove_handler).
TouchStart ==
    /\ mounted
    /\ touchmove_attached' = TRUE
    /\ UNCHANGED <<mousemove_attached, drag_vars>>
    /\ gesture_frame

\* "mouseup" that forgets the second origin field.
MouseUp_half ==
    /\ mounted
    /\ mousemove_attached' = FALSE
    /\ drag_starting_angle' = Undefined
    /\ UNCHANGED <<touchmove_attached, drag_starting_remaining_seconds>>
    /\ gesture_frame

\* "mouseup": the move listener is removed and the origin cleared.
MouseUp ==
    /\ mounted
    /\ mousemove_attached' = FALSE
    /\ drag_starting_angle' = Undefined
    /\ drag_starting_remaining_seconds' = Undefined
    /\ UNCHANGED touchmove_attached
    /\ gesture_frame

\* "touchend" that also stops the animation loop.
TouchEnd_cancel ==
    /\ mounted
    /\ touchmove_attached' = FALSE
    /\ drag_starting_angle' = Undefined
    /\ drag_starting_remaining_seconds' = Undefined
    /\ intervals' = clearTimeout(intervals, animation_timer)
    /\ UNCHANGED <<mousemove_attached, fixed_vars, mounted, now, canvas_vars,
                   client_vars, time_vars, animation_timer, next_handle,
                   prev_render_ms, shown, advances, delivered, dragged>>

\* "touchend": the move listener is removed and the origin cleared.
TouchEnd ==
    /\ mounted
    /\ touchmove_attached' = FALSE
    /\ drag_starting_angle' = Undefined
    /\ drag_starting_remaining_seconds' = Undefined
    /\ UNCHANGED mousemove_attached
    /\ gesture_frame

\* A "resize" listener that also starts the animation loop.
Resize_restart(cw, ch) ==
    /\ mounted
    /\ next_handle <= MaxHandles
    /\ clientWidth' = cw
    /\ clientHeight' = ch
    /\ LET r == setup_resolution(Canvas, cw, ch)
       IN  StoreCanvas(r)
    /\ StoreTimer(animate_clock(now))
    /\ UNCHANGED <<fixed_vars, mounted, now, time_vars, drag_vars,
                   listener_vars, prev_render_ms, shown, advances, delivered,
                   dragged>>

\* The window's "resize" event with the layout size now (cw, ch): the
\* listener is setup_resolution.
Resize(cw, ch) ==
    /\ mounted
    /\ clientWidth' = cw
    /\ clientHeight' = ch
    /\ LET r == setup_resolution(Canvas, cw, ch)
       IN  StoreCanvas(r)
    /\ UNCHANGED <<fixed_vars, mounted, now, time_vars, drag_vars, timer_vars,
                   listener_vars, prev_render_ms, shown, advances, delivered,
                   dragged>>

\* The canvas element is removed from the document.  The element build
\* defines connectedCallback and no disconnectedCallback, the wrapper build
\* watches nothing: no code of the engine runs, and no field changes.
Teardown ==
    /\ mounted
    /\ ~torn_down
    /\ torn_down' = TRUE
    /\ UNCHANGED <<variant, context, thrown, called_with, mounted, now,
                   canvas_vars, client_vars, time_vars, drag_vars, timer_vars,
                   listener_vars, prev_render_ms, shown, advances, delivered,
                   dragged>>

\* A direct call set_remaining_seconds(s) on the constructed object.
CallSetRemainingSeconds(s) ==
    /\ ~thrown
    /\ StoreTime(set_remaining_seconds(s))
    /\ called_with' = Some(s)
    /\ UNCHANGED <<variant, context, thrown, torn_down, mounted, now,
                   canvas_vars, client_vars, drag_vars,
                   timer_vars, listener_vars, prev_render_ms, shown, advances,
                   delivered, dragged>>

\* ------------------------------------------------------------- behaviour
Next ==
    \/ Mount
    \/ \E d \in Steps : Advance(d)
    \/ \E iv \in intervals : \E d \in RenderMs : Tick(iv, d)
    \/ MouseDown
    \/ MouseUp
    \/ TouchStart
    \/ TouchEnd
    \/ \E raw \in RawAngles : MouseMove(raw)
    \/ \E raw \in RawAngles : TouchMove(raw)
    \/ \E l \in Layouts : Resize(l[1], l[2])

Spec == Init /\ [][Next]_vars

\* The program with a clock that keeps going and a browser that keeps
\* running the callbacks of active schedules: time passes while the loop
\* runs (Elapses), and a callback that is due runs (Ticks).  User input and
\* resize events may stop at any moment.  Drags come from the mouse: a touch
\* gesture runs the same mousemove_handler.
Elapses == \E d \in LiveSteps : Elapse(d)
Ticks == \E iv \in intervals : \E d \in LiveRenderMs : Tick(iv, d)

NextLive ==
    \/ Mount
    \/ Elapses
    \/ Ticks
    \/ MouseDown
    \/ MouseUp
    \/ \E raw \in RawAngles : MouseMove(raw)
    \/ \E l \in Layouts : Resize(l[1], l[2])

SpecLive ==
    /\ Init
    /\ [][NextLive]_vars
    /\ WF_vars(Elapses)
    /\ WF_vars(Ticks)

\* The page removes the canvas at some moment.  A removed element receives
\* no pointer or touch event; the window goes on sending resize events and
\* the browser goes on running interval callbacks.
NextTeardown ==
    \/ ~torn_down /\ Next
    \/ Teardown
    \/ torn_down /\ \E d \in Steps : Advance(d)
    \/ torn_down /\ \E iv \in intervals : \E d \in RenderMs : Tick(iv, d)
    \/ torn_down /\ \E l \in Layouts : Resize(l[1], l[2])

SpecTeardown == Init /\ [][NextTeardown]_vars

\* set_remaining_seconds as a function: every multiple of ten seconds within
\* NormSpan steps of zero is passed to it.
NormInputs == {Sec(10 * k) : k \in -NormSpan .. NormSpan}
NextNormalize == \E s \in NormInputs : CallSetRemainingSeconds(s)
SpecNormalize == Init /\ [][NextNormalize]_vars

\* ================================================================ claims

Running == intervals # {}
Idle == intervals = {}

\* handlers() has run: the listeners for mouseup, touchend, mousedown and
\* touchstart are on the canvas and the one for resize is on the window.
\* Only setup() calls handlers(), and no code removes these five.
handlers_installed == mounted

\* A callback that calls animate_clock: setup() or a move event.
AnimateClockStep ==
    \/ Mount
    \/ \E raw \in RawAngles : MouseMove(raw) \/ TouchMove(raw)

\* C1: at most one interval schedule is active in every reachable state, and
\* it is the one animation_timer holds; every callback that calls
\* animate_clock (the second call in succession as well as the first) leaves
\* exactly one active.
C1_OneSchedule ==
    /\ [](/\ Cardinality(intervals) <= 1
          /\ \A i \in intervals : animation_timer = Some(i.id))
    /\ [][AnimateClockStep => Cardinality(intervals') = 1]_vars

\* Witness of C1: animate_clock has run more than twice (setup and two move
\* events) and one schedule is active.
C1_Witness ==
    /\ next_handle > 3
    /\ Cardinality(intervals) = 1

\* C2: remaining_seconds is never negative.
C2_NonNegative == remaining_seconds >= 0

\* Witness of C2: a drag that went below zero was wrapped: the origin was
\* recorded with no time left, the pointer moved one mark on, and the time
\* stored is one minute short of the hour.
C2_Witness ==
    /\ drag_starting_remaining_seconds = Some(0)
    /\ remaining_seconds = Hour - Sec(60)

\* C3 as stated: after set_remaining_seconds(s) the stored time lies in
\* [0, 3600) and is congruent to s modulo 3600, for every s.
C3_Original ==
    called_with # Undefined =>
        /\ remaining_seconds >= 0
        /\ remaining_seconds < Hour
        /\ (remaining_seconds - called_with[1]) % Hour = 0

\* C3 as amended: after set_remaining_seconds(s) the stored time is not
\* negative and is congruent to s modulo 3600; it lies in [0, 3600) when
\* s < 3600, and an s that is not negative is stored as it is, so that an
\* s >= 3600 leaves remaining_seconds >= 3600.
C3_Normalized ==
    called_with # Undefined =>
        LET s == called_with[1]
        IN  /\ remaining_seconds >= 0
            /\ (remaining_seconds - s) % Hour = 0
            /\ s < Hour => remaining_seconds < Hour
            /\ s >= 0 => remaining_seconds = s
            /\ s = Sec(-10) => remaining_seconds = Sec(3590)
            /\ s = Sec(-3700) => remaining_seconds = Sec(3500)

\* Witness of C3: set_remaining_seconds(-3700) has stored 3500, the loop
\* having added two hours.
C3_Witness ==
    /\ called_with = Some(Sec(-3700))
    /\ remaining_seconds = Sec(3500)

\* C4: time_radians is the angle of remaining_seconds: a turn of 2 pi for
\* every 3600 seconds.
C4_AngleInSync ==
    time_radians * 60 * 60 * SecScale = remaining_seconds * 2 * PI

\* Witness of C4: both a tick and a drag have changed the time.
C4_Witness ==
    /\ delivered > 0
    /\ drag_starting_remaining_seconds # Undefined
    /\ remaining_seconds # drag_starting_remaining_seconds[1]
    /\ remaining_seconds # Sec(2 * 60)

\* C5 as stated: with no drag, once the ticks have delivered exactly the 120
\* seconds the countdown began with, the loop is Idle and no time is left.
C5_Original ==
    (~dragged /\ delivered = Sec(2 * 60)) =>
        (Idle /\ remaining_seconds = 0)

\* C5 as amended: with no drag, the time left is 120 seconds less what the
\* ticks have delivered while that is at most 120 seconds, and the loop is
\* then still Running, also when exactly 120 seconds have been delivered and
\* no time is left; the loop is Idle, with no time left, once the ticks have
\* delivered more than 120 seconds.
C5_Countdown ==
    (mounted /\ ~dragged) =>
        /\ delivered <= Sec(2 * 60) =>
              (Running /\ remaining_seconds = Sec(2 * 60) - delivered)
        /\ delivered > Sec(2 * 60) => (Idle /\ remaining_seconds = 0)

\* Witness of C5: exactly 120 seconds were delivered, in more than one tick,
\* and no time is left.
C5_Witness ==
    /\ ~dragged
    /\ delivered = Sec(2 * 60)
    /\ remaining_seconds = 0
    /\ advances > 1

\* A move event at the pointer direction raw (it is among the steps in which
\* setInterval hands out a handle).
MoveEvent(raw) ==
    /\ next_handle' # next_handle
    /\ MouseMove(raw) \/ TouchMove(raw)

\* C6: a move event other than the first of its gesture, at angle a, stores
\* origin seconds + 3600 * (origin angle - a) / (2 pi), plus 3600 when that
\* is negative, whatever the ticks did to remaining_seconds since the origin
\* was recorded; from an origin of 60 seconds and a = origin angle - pi / 30
\* it stores 120.
C6_DragDelta ==
    [][\A raw \in RawAngles :
          (~first_move /\ MoveEvent(raw)) =>
              LET a == NormAngle(raw)
                  o == drag_starting_angle[1]
                  x == drag_starting_remaining_seconds[1]
                         + ((o - a) * Hour) \div (2 * PI)
              IN  /\ remaining_seconds' = IF x >= 0 THEN x ELSE x + Hour
                  /\ (/\ drag_starting_remaining_seconds = Some(Sec(60))
                      /\ a = o - (PI \div 30))
                        => remaining_seconds' = Sec(120)]_vars

\* Witness of C6: the origin was recorded one mark after 12 o'clock with 60
\* seconds left, a tick then took those 60 seconds away, and the move to 12
\* o'clock stored 120.
C6_Witness ==
    /\ drag_starting_angle = Some(PI \div 30)
    /\ drag_starting_remaining_seconds = Some(Sec(60))
    /\ delivered = Sec(2 * 60)
    /\ remaining_seconds = Sec(120)

\* C7: a move event that finds no origin records (angle, remaining_seconds)
\* as the origin and leaves remaining_seconds and time_radians as they are.
C7_FirstMove ==
    [][\A raw \in RawAngles :
          (first_move /\ MoveEvent(raw)) =>
              /\ drag_starting_angle' = Some(NormAngle(raw))
              /\ drag_starting_remaining_seconds' = Some(remaining_seconds)
              /\ UNCHANGED time_vars]_vars

\* Witness of C7: after a tick, the second move event found no origin (the
\* gesture of the first had ended) and recorded one.
C7_Witness ==
    /\ next_handle > 3
    /\ delivered > 0
    /\ drag_starting_angle # Undefined
    /\ drag_starting_remaining_seconds = Some(remaining_seconds)
    /\ drag_starting_remaining_seconds # Some(Sec(2 * 60))
    /\ remaining_seconds > 0

\* A gesture ends.
GestureEnd == MouseUp \/ TouchEnd

\* C8: the two origin fields are defined together or not at all, they are
\* defined only while a move listener is attached, and both are undefined
\* right after a mouseup or touchend.
C8_DragOrigin ==
    /\ [](/\ (drag_starting_angle = Undefined)
               <=> (drag_starting_remaining_seconds = Undefined)
          /\ drag_starting_angle # Undefined
               => (mousemove_attached \/ touchmove_attached))
    /\ [][GestureEnd => (/\ drag_starting_angle' = Undefined
                         /\ drag_starting_remaining_seconds' = Undefined)]_vars

\* Witness of C8: mouse and touch interleaved: a move event recorded an
\* origin, a mouseup cleared it, and the touchmove listener is still there.
C8_Witness ==
    /\ dragged
    /\ drag_starting_angle = Undefined
    /\ drag_starting_remaining_seconds = Undefined
    /\ touchmove_attached
    /\ ~mousemove_attached

\* C9: a mouseup or touchend leaves the interval schedules, the time fields,
\* prev_render_ms and the canvas fields as they are.
C9_GestureEndFrame ==
    [][GestureEnd =>
          UNCHANGED <<animation_timer, intervals, next_handle,
                      remaining_seconds, time_radians, prev_render_ms,
                      needs_full_render, width, height, center, shown, now>>]_vars

\* Witness of C9: a gesture that moved has ended and the loop is Running.
C9_Witness ==
    /\ dragged
    /\ drag_starting_angle = Undefined
    /\ ~mousemove_attached
    /\ ~touchmove_attached
    /\ Running

\* C10 as stated: a render pass that begins with width # height clears the
\* surface, sets needs_full_render before it draws (so that the labels are
\* drawn) and draws around the midpoint of the surface.
C10_Claim ==
    shown.nonsquare => (shown.cleared /\ shown.labels /\ shown.centered)

\* C11: when getContext("2d") gives no context the constructor throws, and
\* then no interval schedule exists, no gesture or resize listener is
\* installed and no render pass has run.
C11_NoContext ==
    ~context =>
        /\ thrown
        /\ intervals = {}
        /\ animation_timer = Undefined
        /\ ~handlers_installed
        /\ ~mousemove_attached
        /\ ~touchmove_attached
        /\ ~shown.drawn

\* Witness of C11: construction without a context has thrown.
C11_Witness ==
    /\ ~context
    /\ thrown
    /\ ~mounted

\* C12 as stated: once the canvas is removed from the document the interval
\* schedule is cancelled and every listener of the engine is detached, so
\* that no callback of the engine can run.
C12_Claim ==
    torn_down =>
        /\ intervals = {}
        /\ ~handlers_installed
        /\ ~mousemove_attached
        /\ ~touchmove_attached

\* The callback of an interval runs.  A schedule is never due before TickMs
\* have passed since the latest render pass, so every tick is handed time.
TickStep ==
    /\ delivered' # delivered
    /\ \E iv \in intervals : \E d \in RenderMs : Tick(iv, d)

\* C13: a tick, with elapsed = now - prev_render_ms read before its render
\* pass, does one of two things: when remaining_seconds - elapsed < 0 it
\* cancels the interval (the loop is Idle) and stores 0; otherwise it stores
\* remaining_seconds - elapsed and the loop stays Running on the same
\* schedule.  elapsed is not negative, so a tick never raises
\* remaining_seconds and never makes the hour wrap.
C13_TickBranches ==
    [][TickStep =>
          LET elapsed_ms == now - prev_render_ms
              left_ms == (remaining_seconds * MsPerSec) \div SecScale
          IN  /\ elapsed_ms >= 0
              /\ IF left_ms - elapsed_ms < 0
                 THEN /\ Idle'
                      /\ remaining_seconds' = 0
                 ELSE /\ Running'
                      /\ intervals' # {}
                      /\ {i.id : i \in intervals'} = {i.id : i \in intervals}
                      /\ remaining_seconds' * MsPerSec =
                             (left_ms - elapsed_ms) * SecScale
              /\ remaining_seconds' <= remaining_seconds
              /\ animation_timer' = animation_timer]_vars

\* Witness of C13: with no drag, two ticks took 60 seconds each off the 120
\* and a third, 60 seconds later, found less than its elapsed time left.
C13_Witness ==
    /\ ~dragged
    /\ advances = 3
    /\ delivered = Sec(3 * 60)
    /\ Idle
    /\ remaining_seconds = 0

\* C14 as stated: in both builds, whenever the loop is Idle after setup
\* (which only expiry brings about), the latest render pass drew the angle
\* time_radians now has, the zero state.
C14_Claim ==
    (mounted /\ Idle) =>
        /\ time_radians = 0
        /\ shown.radians = time_radians

\* A drag move event, a resize event, a pointer-down event.
MoveStep == \E raw \in RawAngles : MoveEvent(raw)
ResizeStep == \E l \in Layouts : Resize(l[1], l[2])
PointerDown == MouseDown \/ TouchStart

\* C15: after setup, an Idle loop has no time left; an Idle loop stays Idle
\* with no time left through every step that is not a drag move event; and
\* resize, pointer-down and gesture-end events leave the schedules and
\* remaining_seconds as they are, whatever the loop's state.
C15_IdleStays ==
    /\ []((mounted /\ Idle) => remaining_seconds = 0)
    /\ [][(mounted /\ Idle /\ ~MoveStep)
             => (Idle' /\ remaining_seconds' = 0)]_vars
    /\ [][(ResizeStep \/ PointerDown \/ GestureEnd)
             => UNCHANGED <<intervals, animation_timer, next_handle,
                            remaining_seconds, time_radians>>]_vars

\* Witness of C15: the loop is Idle with no time left, a resize has changed
\* the surface since the tick that stopped it, and the mousemove listener
\* is attached with no origin recorded.
C15_Witness ==
    /\ mounted
    /\ Idle
    /\ remaining_seconds = 0
    /\ needs_full_render
    /\ mousemove_attached
    /\ drag_starting_angle = Undefined

\* C16: a drag move event (first or later, loop Running or Idle) leaves the
\* loop Running on one schedule, the one it created, due TickMs after the
\* event, with prev_render_ms at the event's render pass; the only active
\* schedule is always the one created last, never due less than TickMs after
\* the latest render pass; between a move event and the next tick nothing
\* writes remaining_seconds or prev_render_ms, and that tick stores 0 or
\* takes now - prev_render_ms off.
C16_MoveRestarts ==
    /\ [][MoveStep =>
             /\ Running'
             /\ intervals' = {[id |-> next_handle, due |-> now' + TickMs]}
             /\ animation_timer' = Some(next_handle)
             /\ \A i \in intervals : i \notin intervals'
             /\ prev_render_ms' = now']_vars
    /\ [](\A i \in intervals : /\ i.id = next_handle - 1
                                /\ i.due >= prev_render_ms + TickMs)
    /\ [][(mounted /\ ~MoveStep /\ ~TickStep)
             => UNCHANGED <<remaining_seconds, prev_render_ms, intervals>>]_vars
    /\ [][TickStep =>
             \/ remaining_seconds' = 0
             \/ remaining_seconds' * MsPerSec =
                    remaining_seconds * MsPerSec
                      - (now - prev_render_ms) * SecScale]_vars

\* Witness of C16: a gesture began with the 120 seconds of construction
\* left, its second move event stored 60, and the tick of the schedule that
\* event created (the third handle), 60 seconds later, left none.
C16_Witness ==
    /\ drag_starting_remaining_seconds = Some(Sec(2 * 60))
    /\ animation_timer = Some(3)
    /\ delivered = Sec(60)
    /\ remaining_seconds = 0
    /\ Running

\* A callback that runs a render pass: setup(), a move event or a tick.
RenderStep == Mount \/ MoveStep \/ TickStep

\* C17: needs_full_render is set after construction and clear after every
\* callback that ran a render pass; a callback that finds the flag clear
\* (its pass follows another with no resize that changed the surface in
\* between) draws no labels, and one that finds it set (the first pass after
\* construction or after such a resize) draws them; a resize that changes
\* the surface sets the flag.
C17_FullRender ==
    /\ []((~thrown /\ ~mounted) => needs_full_render)
    /\ [][RenderStep =>
             /\ ~needs_full_render'
             /\ ~needs_full_render => ~shown'.labelled
             /\ needs_full_render => shown'.labelled]_vars
    /\ [][(ResizeStep /\ <<width, height>>' # <<width, height>>)
             => needs_full_render']_vars

\* Witness of C17: with no drag, a tick's pass drew the labels: a resize
\* had changed the surface after setup's pass.
C17_Witness ==
    /\ ~dragged
    /\ delivered > 0
    /\ shown.labelled
    /\ ~needs_full_render
    /\ width = height

\* C18: when time keeps passing and due callbacks keep running, a mounted
\* timer whose drag move events come to an end gets to an Idle loop with no
\* time left, whatever time the last move event stored.
C18_Expires == mounted ~> (Idle /\ remaining_seconds = 0)

\* Witness of C18: a drag stored more than an hour, and the ticks that
\* followed took all of it away.
C18_Witness ==
    /\ dragged
    /\ delivered > Hour
    /\ Idle
    /\ remaining_seconds = 0

\* C19 as stated: remaining_seconds + prev_render_ms / 1000 is left as it
\* is by every tick that does not reach zero and by every resize event (the
\* countdown follows the wall clock).
C19_Claim ==
    [][((TickStep /\ Running') \/ ResizeStep) =>
          remaining_seconds' * MsPerSec + prev_render_ms' * SecScale
            = remaining_seconds * MsPerSec + prev_render_ms * SecScale]_vars

\* C20 as stated: once a resize event has cleared the surface and set
\* needs_full_render, a render pass follows and clears the flag with no user
\* input needed, whatever the loop's state.
C20_Claim == (mounted /\ needs_full_render) ~> ~needs_full_render

====
